---- MODULE Spec2Model ----
(***************************************************************************)
(* navary::memory::Arena (src/engine/src/navary/memory/arena.h): the       *)
(* epoch-guarded bump allocator.  Threads allocate through thread-local    *)
(* lanes, register cleanups, hold ArenaEpoch guards and reset the arena.   *)
(* Addresses are integers; a block is named by the address the upstream    *)
(* provider returned for it.                                               *)
(***************************************************************************)
EXTENDS Integers, Sequences, FiniteSets, TLC

\* ------------------------------------------------------------------------
\* Program constants
\* ------------------------------------------------------------------------
kCountMask == 2147483647
SizeofArenaBlock == 40
SizeofDtorNode == 24
AlignofDtorNode == 8
Null == 0
\* MakeSpan<T>: a T of one 8-byte member with a destructor, and the two
\* local structs Sweep {size_t} and SweepPtr {size_t, T*}.
SizeofT == 8
AlignofT == 8
SizeofSweep == 8
AlignofSweep == 8
SizeofSweepPtr == 16

\* ------------------------------------------------------------------------
\* Bounds of the model
\* ------------------------------------------------------------------------
MaxOps == 3
MaxSeqOps == 4
MaxLiveOps == 2
MaxUpstream == 3
MaxPurgeOps == 4
MaxMutexOps == 3
MaxCbOps == 2
MaxTwoOps == 2
MaxMisuseOps == 3
MaxScript == 3
MaxSpan == 2

Threads == {1, 2}
\* Allocate(size, alignment) requests the threads make.
Requests == {<<0, 8>>, <<24, 8>>, <<24, 32>>, <<100, 8>>}
ConcRequests == {<<24, 8>>}
\* The Allocate a cleanup makes when cleanups allocate.
CallbackRequest == <<24, 8>>
\* Own(ptr, deleter) of a caller's own object: <<fn, arg, n, arr>>.
UserCleanup == <<"user", 1, 0, 0>>
\* The requests of the scripts that are replayed after a Reset.
ReplayRequests == {<<8, 8>>, <<24, 8>>}
HeapBase == 16 * 16

\* ArenaOptions: block sizing, minimum alignment and the wait policy.
DefaultConfig ==
  [initial_block_bytes |-> 64, max_block_bytes |-> 128, alignment |-> 16,
   spin_iters |-> 1, yield_iters |-> 1]

\* Blocks that take several of the requests.
RoomyConfig ==
  [initial_block_bytes |-> 128, max_block_bytes |-> 256, alignment |-> 16,
   spin_iters |-> 1, yield_iters |-> 1]

Configs ==
  { [initial_block_bytes |-> 64, max_block_bytes |-> 128, alignment |-> 16,
     spin_iters |-> 1, yield_iters |-> 1],
    [initial_block_bytes |-> 64, max_block_bytes |-> 256, alignment |-> 16,
     spin_iters |-> 0, yield_iters |-> 0] }

VARIABLES
  cfg,        \* opts_
  debug,      \* NAVARY_ARENA_EPOCH_DEBUG
  maint,      \* the threads that call ArenaResetSafely / Reset
  active,     \* the threads that use the arena at all
  limit,      \* how many calls are made in all
  reqs,       \* the Allocate requests made
  word,       \* active_epochs_: bit 31 (frozen) and bits 30..0 (count)
  head,       \* head_: the block list, newest first (addresses)
  blocks,     \* block address -> [begin, cur, end, dtors]
  total,      \* total_bytes_
  lane,       \* thread -> thread_local ArenaLaneTLS.block
  th,         \* thread -> position and locals of the call in progress
  crashed,    \* "none", or why the process was terminated
  upcalls,    \* successful upstream.allocate calls so far
  nops,       \* calls started so far
  nextId,     \* next fresh cleanup argument
  registered, \* cleanup ids whose Own has linked its node
  invoked,    \* cleanup id -> number of times RunAllDtors_ called it
  events,     \* telemetry counters
  ranges,     \* thread -> ranges returned to it since the last reset started
  resets,     \* completed Reset() calls: <<ids registered at its start>>
  cb,         \* the registered cleanups call Allocate on this arena
  script,     \* the calls a scripted caller makes, in order (or <<>>)
  mu,         \* mu_: the thread holding it, or Null
  given,      \* upstream.allocate answers so far: <<raw, size>>
  returned,   \* upstream.deallocate calls so far: <<raw, size>>
  log,        \* results the scripted caller got from Allocate, in order
  owned,      \* cleanup id -> the (fn, arg) pair Own was given
  laneGiven   \* thread -> which answer of given its lane.block came from, 0: none

\* What no operation of the arena changes: options, build, callers.
env == <<cfg, debug, cb, script, maint, active, limit, reqs>>

vars == <<env, word, head, blocks, total, lane, laneGiven, th, crashed,
          upcalls, nops, nextId, registered, invoked, events, ranges, resets,
          mu, given, returned, log, owned>>

\* ------------------------------------------------------------------------
\* Pure helpers
\* ------------------------------------------------------------------------
\* cur & kFreezeBit
Frozen(w) == w.frozen

\* cur & kCountMask
Count(w) == w.count

\* cur + 1 on the 32-bit word: a carry out of the count flips bit 31.
Incr(w) ==
  IF w.count < kCountMask THEN [w EXCEPT !.count = @ + 1]
  ELSE [frozen |-> ~w.frozen, count |-> 0]

\* (x + (a - 1)) & ~(a - 1), a a power of two
AlignUp(x, a) == ((x + (a - 1)) \div a) * a

\* Allocate: alignment raised to the configured minimum
RaiseAlign(a) == IF a < cfg.alignment THEN cfg.alignment ELSE a

TryBump_(b, bytes, align) ==
  LET aligned == AlignUp(b.cur, align)
      next    == aligned + bytes
  IN  IF next <= b.end THEN [ok |-> TRUE, cur |-> next]
                       ELSE [ok |-> FALSE, cur |-> b.cur]

NextBlockSize_(need, align) ==
  LET min_needed == need + align + SizeofArenaBlock
      body       == IF min_needed > cfg.initial_block_bytes
                      THEN min_needed ELSE cfg.initial_block_bytes
  IN  IF body > cfg.max_block_bytes THEN cfg.max_block_bytes ELSE body

\* The upstream provider: the lowest address aligned to opts_.alignment at
\* which `want` bytes overlap no live block.
UpstreamAllocate(want) ==
  LET cands == {HeapBase} \cup
               {AlignUp(blocks[r].end, cfg.alignment) : r \in DOMAIN blocks}
      fits(c) == \A r \in DOMAIN blocks : c + want <= r \/ c >= blocks[r].end
      ok == {c \in cands : fits(c)}
  IN  CHOOSE c \in ok : \A d \in ok : c <= d

\* new (raw) ArenaBlock(raw + sizeof(ArenaBlock), want - sizeof(ArenaBlock))
NewBlock(raw, want) ==
  [begin |-> raw + SizeofArenaBlock, cur |-> raw + SizeofArenaBlock,
   end |-> raw + want, dtors |-> <<>>]

\* A refill that links the block and leaves total_bytes_ alone.
RefillLaneUncounted_(raw, want, align) ==
  LET b0 == NewBlock(raw, want)
      b1 == [b0 EXCEPT !.cur = TryBump_(b0, 0, align).cur]
  IN  [blocks |-> [r \in DOMAIN blocks \cup {raw} |->
                     IF r = raw THEN b1 ELSE blocks[r]],
       head   |-> <<raw>> \o head,
       total  |-> total]

\* RefillLane_ once the upstream has answered `raw`: link, count, first bump.
RefillLane_(raw, want, align) ==
  LET b0 == NewBlock(raw, want)
      b1 == [b0 EXCEPT !.cur = TryBump_(b0, 0, align).cur]
  IN  [blocks |-> [r \in DOMAIN blocks \cup {raw} |->
                     IF r = raw THEN b1 ELSE blocks[r]],
       head   |-> <<raw>> \o head,
       total  |-> total + want]

\* A plain increment in place of the compare-and-swap.
CasEnterBlind(w, cur) == [ok |-> TRUE, word |-> Incr(w)]

\* The CAS of EnterEpoch_: count++ iff the word still is what was read.
CasEnter(w, cur) ==
  IF w = cur THEN [ok |-> TRUE, word |-> Incr(cur)]
             ELSE [ok |-> FALSE, word |-> w]

\* fetch_sub(1) on the 32-bit word: a borrow from the count flips bit 31.
LeaveEpoch_(w) ==
  IF w.count > 0 THEN [w EXCEPT !.count = @ - 1]
  ELSE [frozen |-> ~w.frozen, count |-> kCountMask]

\* A freeze that also zeroes the count.
BeginFreezeClearing(w) == [frozen |-> TRUE, count |-> 0]

\* A freeze that sets nothing.
BeginFreezeNoop(w) == w

\* The first CAS loop of ArenaResetSafely: cur | kFreezeBit
BeginFreeze(w) == [w EXCEPT !.frozen = TRUE]

\* An unfreeze that clears nothing.
EndFreezeNoop(w) == w

\* The last CAS loop of ArenaResetSafely: cur & kCountMask
EndFreeze(w) == [w EXCEPT !.frozen = FALSE]

\* A yield that keeps the value read before it.
YieldReloadStale(w, cur) == cur

\* EnterEpoch_ while FREEZE is seen: yield(), then cur = load()
YieldReload(w, cur) == w

InList(r) == \E i \in 1..Len(head) : head[i] = r

\* A thread between calls: no call in progress, no guard held.
Idle == [pc |-> "idle", op |-> "none", size |-> 0, align |-> 0,
         curv |-> [frozen |-> FALSE, count |-> 0],
         fail |-> FALSE, res |-> Null, guard |-> FALSE, id |-> 0,
         next |-> <<>>, ok |-> FALSE, phase |-> "spin", i |-> 0,
         expired |-> FALSE, pending |-> <<>>, atStart |-> {},
         nested |-> FALSE]

\* The process has not been terminated.
Running == crashed = "none"

\* ------------------------------------------------------------------------
\* Init
\* ------------------------------------------------------------------------
InitArena(cfgs, act, m, lim, rq, c, sc) ==
  /\ cfg \in cfgs
  /\ debug \in BOOLEAN
  /\ cb = c
  /\ script \in sc
  /\ mu = Null
  /\ given = <<>>
  /\ returned = <<>>
  /\ log = <<>>
  /\ owned = <<>>
  /\ maint = m
  /\ active = act
  /\ limit = lim
  /\ reqs = rq
  /\ word = [frozen |-> FALSE, count |-> 0]
  /\ head = <<>>
  /\ blocks = <<>>
  /\ total = 0
  /\ lane = [t \in Threads |-> Null]
  /\ laneGiven = [t \in Threads |-> 0]
  /\ th = [t \in Threads |-> Idle]
  /\ crashed = "none"
  /\ upcalls = 0
  /\ nops = 0
  /\ nextId = 1
  /\ registered = {}
  /\ invoked = [i \in 1..lim |-> 0]
  /\ events = [refill |-> 0, reset_begin |-> 0, reset_end |-> 0]
  /\ ranges = [t \in Threads |-> {}]
  /\ resets = <<>>

\* Callers that follow no script, cleanups that do not allocate.
InitWith(cfgs, act, m, lim, rq) ==
  InitArena(cfgs, act, m, lim, rq, FALSE, {<<>>})

\* Two threads, one of them the maintenance thread.
Init == InitWith({DefaultConfig}, Threads, {1}, MaxOps, ConcRequests)

\* The same two threads with fewer calls, for the checks under fairness.
InitLive == InitWith({DefaultConfig}, Threads, {1}, MaxLiveOps, ConcRequests)

\* One thread on its own, more calls, every request and configuration.
InitSeq == InitWith(Configs, {1}, {1}, MaxSeqOps, Requests)

\* ------------------------------------------------------------------------
\* Allocate
\* ------------------------------------------------------------------------
\* Allocate(size, alignment): raise the alignment; EnterEpoch_ reads the word.
AllocateCall(t, n, a) ==
  /\ Running /\ th[t].pc = "idle" /\ t \in active /\ nops < limit
  /\ th' = [th EXCEPT ![t] = [th[t] EXCEPT
               !.pc = "enter", !.op = "alloc", !.size = n,
               !.align = RaiseAlign(a), !.curv = word,
               !.fail = FALSE, !.res = Null]]
  /\ nops' = nops + 1
  /\ UNCHANGED <<env, mu, given, returned, log, owned, word, head, blocks, total, lane, laneGiven, crashed,
                 upcalls, nextId, registered, invoked, events, ranges, resets>>

\* Where a thread goes once its increment has taken effect.
AfterEnter(t) ==
  IF th[t].op = "guard" THEN "idle"
  ELSE IF lane[t] = Null THEN "refill" ELSE "cached"

\* One turn of the loop of EnterEpoch_: yield and re-read while FREEZE is
\* seen, else try the CAS; a failed CAS reloads the word.
EnterEpoch(t) ==
  /\ Running /\ th[t].pc = "enter"
  /\ LET r == th[t]
         c == CasEnter(word, r.curv)
     IN  IF Frozen(r.curv)
           THEN /\ th' = [th EXCEPT ![t] = [r EXCEPT
                             !.curv = YieldReload(word, r.curv)]]
                /\ word' = word
           ELSE /\ word' = c.word
                /\ th' = [th EXCEPT ![t] =
                            IF c.ok
                              THEN [r EXCEPT !.pc = AfterEnter(t),
                                             !.guard = (r.op = "guard") \/ r.guard]
                              ELSE [r EXCEPT !.curv = word]]
  /\ UNCHANGED <<env, mu, given, returned, log, owned, head, blocks, total, lane, laneGiven, crashed,
                 upcalls, nops, nextId, registered, invoked, events, ranges,
                 resets>>

\* Allocate with a cached block: drop it when it is no longer linked (the
\* walk of the list under mu_), else TryBump_ on it, the fast path.
TryCachedBlock(t) ==
  /\ Running /\ th[t].pc = "cached"
  /\ mu = Null
  /\ IF InList(lane[t])
       THEN LET tb == TryBump_(blocks[lane[t]], th[t].size, th[t].align)
            IN  /\ blocks' = [blocks EXCEPT ![lane[t]].cur = tb.cur]
                /\ th' = [th EXCEPT ![t].pc = IF tb.ok THEN "leave" ELSE "refill"]
                /\ lane' = lane /\ laneGiven' = laneGiven
       ELSE /\ lane' = [lane EXCEPT ![t] = Null]
            /\ laneGiven' = [laneGiven EXCEPT ![t] = 0]
            /\ th' = [th EXCEPT ![t].pc = "refill"]
            /\ blocks' = blocks
  /\ UNCHANGED <<env, mu, given, returned, log, owned, word, head, total,
                 crashed, upcalls, nops, nextId, registered, invoked, events,
                 ranges, resets>>

\* RefillLane_ from the call of the upstream on, then the bump whose result
\* Allocate ignores.  The upstream answers null when it pleases, and once
\* its budget is used.
RefillBody(t) ==
  /\ \E up \in BOOLEAN :
       LET want == NextBlockSize_(th[t].size, th[t].align)
           raw  == UpstreamAllocate(want)
           R    == RefillLane_(raw, want, th[t].align)
           tb   == TryBump_(R.blocks[raw], th[t].size, th[t].align)
       IN  IF up /\ upcalls < MaxUpstream
             THEN /\ blocks' = [R.blocks EXCEPT ![raw].cur = tb.cur]
                  /\ head' = R.head
                  /\ total' = R.total
                  /\ lane' = [lane EXCEPT ![t] = raw]
                  /\ laneGiven' = [laneGiven EXCEPT ![t] = Len(given) + 1]
                  /\ events' = [events EXCEPT !.refill = @ + 1]
                  /\ upcalls' = upcalls + 1
                  /\ given' = Append(given, <<raw, want>>)
                  /\ th' = [th EXCEPT ![t].pc = "leave"]
             ELSE /\ lane' = [lane EXCEPT ![t] = Null]
                  /\ laneGiven' = [laneGiven EXCEPT ![t] = 0]
                  /\ th' = [th EXCEPT ![t] = [th[t] EXCEPT
                               !.pc = "leave", !.fail = TRUE]]
                  /\ UNCHANGED <<blocks, head, total, events, upcalls, given>>
  /\ UNCHANGED <<env, returned, log, owned, word, crashed, nops, nextId, registered,
                 invoked, ranges, resets>>

\* Allocate: RefillLane_ under mu_, taken and released within the step.
Refill(t) ==
  /\ Running /\ th[t].pc = "refill"
  /\ mu = Null
  /\ RefillBody(t)
  /\ mu' = mu

\* RefillLane_: NAVARY_LOCK_GUARD(lk, mu_), the upstream not yet answered.
RefillLock(t) ==
  /\ Running /\ th[t].pc = "refill"
  /\ mu = Null
  /\ mu' = t
  /\ th' = [th EXCEPT ![t].pc = "refill_up"]
  /\ UNCHANGED <<env, given, returned, log, owned, word, head, blocks, total,
                 lane, laneGiven, crashed, upcalls, nops, nextId, registered, invoked,
                 events, ranges, resets>>

\* RefillLane_: the upstream answers; link or fail; mu_ is released.
RefillUnlock(t) ==
  /\ Running /\ th[t].pc = "refill_up"
  /\ RefillBody(t)
  /\ mu' = Null

\* A failure return that forgets the epoch.
LeaveOnFailureMissing(w) == w

\* The word after the out-of-memory return of Allocate: LeaveEpoch_ runs.
LeaveOnFailure(w) == LeaveEpoch_(w)

\* Allocate: p = lane.block->cur - size; LeaveEpoch_(); return p -- or the
\* null return after a failed refill.
Leave(t) ==
  /\ Running /\ th[t].pc = "leave"
  /\ LET r == th[t]
         p == IF r.fail THEN Null ELSE blocks[lane[t]].cur - r.size
     IN  /\ word' = IF r.fail THEN LeaveOnFailure(word) ELSE LeaveEpoch_(word)
         /\ th' = [th EXCEPT ![t] = [r EXCEPT
                      !.res = p, !.nested = FALSE,
                      !.pc = IF r.nested THEN "rs_run"
                             ELSE IF r.op = "own" THEN "own_node" ELSE "idle"]]
         /\ log' = IF script # <<>> /\ r.op = "alloc"
                     THEN Append(log, <<p, IF p = Null THEN 0
                                           ELSE p - blocks[lane[t]].begin>>)
                     ELSE log
         /\ ranges' = IF p # Null /\ r.size > 0
                        THEN [ranges EXCEPT ![t] = @ \cup {<<p, r.size>>}]
                        ELSE ranges
  /\ UNCHANGED <<env, mu, given, returned, owned, head, blocks, total, lane, laneGiven, crashed,
                 upcalls, nops, nextId, registered, invoked, events, resets>>

\* ------------------------------------------------------------------------
\* Own
\* ------------------------------------------------------------------------
\* Own(ptr, deleter), both non-null: GetLane_; RefillLane_ when the lane has
\* no block (no epoch is held here); then Allocate for the node begins.
OwnCall(t, d) ==
  /\ Running /\ th[t].pc = "idle" /\ t \in active /\ nops < limit
  /\ lane[t] # Null \/ mu = Null
  /\ owned' = Append(owned, d)
  /\ \E up \in BOOLEAN :
       LET want == NextBlockSize_(SizeofDtorNode, AlignofDtorNode)
           raw  == UpstreamAllocate(want)
           R    == RefillLane_(raw, want, AlignofDtorNode)
       IN  IF lane[t] # Null
             THEN UNCHANGED <<blocks, head, total, lane, laneGiven, events, upcalls, given>>
             ELSE IF up /\ upcalls < MaxUpstream
               THEN /\ blocks' = R.blocks
                    /\ head' = R.head
                    /\ total' = R.total
                    /\ lane' = [lane EXCEPT ![t] = raw]
                    /\ laneGiven' = [laneGiven EXCEPT ![t] = Len(given) + 1]
                    /\ events' = [events EXCEPT !.refill = @ + 1]
                    /\ upcalls' = upcalls + 1
                    /\ given' = Append(given, <<raw, want>>)
               ELSE UNCHANGED <<blocks, head, total, lane, laneGiven, events, upcalls, given>>
  /\ th' = [th EXCEPT ![t] = [th[t] EXCEPT
               !.pc = "enter", !.op = "own", !.id = nextId,
               !.size = SizeofDtorNode, !.align = RaiseAlign(AlignofDtorNode),
               !.curv = word, !.fail = FALSE, !.res = Null, !.next = <<>>]]
  /\ nextId' = nextId + 1
  /\ nops' = nops + 1
  /\ UNCHANGED <<env, mu, returned, log, word, crashed, registered, invoked,
                 ranges, resets>>

\* Own: new (node_mem) DtorNode{deleter, ptr, lane.block->dtors}.  A null
\* node_mem or a null lane.block is a write or read through null.
OwnNode(t) ==
  /\ Running /\ th[t].pc = "own_node"
  /\ IF th[t].res = Null \/ lane[t] = Null
       THEN /\ crashed' = "null_deref"
            /\ th' = th
       ELSE /\ th' = [th EXCEPT ![t] = [th[t] EXCEPT
                         !.pc = "own_link", !.next = blocks[lane[t]].dtors]]
            /\ crashed' = crashed
  /\ UNCHANGED <<env, mu, given, returned, log, owned, word, head, blocks, total, lane, laneGiven, upcalls,
                 nops, nextId, registered, invoked, events, ranges, resets>>

\* A node appended at the tail of the list.
LinkNodeAtEnd(id, next) == Append(next, id)

\* Own: DtorNode{deleter, ptr, lane.block->dtors} becomes the head of the
\* block's list.
LinkNode(id, next) == <<id>> \o next

\* Own: lane.block->dtors = node.
OwnLink(t) ==
  /\ Running /\ th[t].pc = "own_link"
  /\ blocks' = [blocks EXCEPT ![lane[t]].dtors = LinkNode(th[t].id, th[t].next)]
  /\ registered' = registered \cup {th[t].id}
  /\ th' = [th EXCEPT ![t].pc = "idle"]
  /\ UNCHANGED <<env, mu, given, returned, log, owned, word, head, total, lane, laneGiven, crashed, upcalls,
                 nops, nextId, invoked, events, ranges, resets>>

\* ------------------------------------------------------------------------
\* ArenaEpoch
\* ------------------------------------------------------------------------
\* ArenaEpoch(arena): EnterEpoch_.
GuardEnter(t) ==
  /\ Running /\ th[t].pc = "idle" /\ t \in active /\ ~th[t].guard /\ nops < limit
  /\ th' = [th EXCEPT ![t] = [th[t] EXCEPT
               !.pc = "enter", !.op = "guard", !.curv = word]]
  /\ nops' = nops + 1
  /\ UNCHANGED <<env, mu, given, returned, log, owned, word, head, blocks, total, lane, laneGiven, crashed,
                 upcalls, nextId, registered, invoked, events, ranges, resets>>

\* ~ArenaEpoch(): LeaveEpoch_.
GuardLeave(t) ==
  /\ Running /\ th[t].pc = "idle" /\ th[t].guard
  /\ word' = LeaveEpoch_(word)
  /\ th' = [th EXCEPT ![t].guard = FALSE]
  /\ UNCHANGED <<env, mu, given, returned, log, owned, head, blocks, total, lane, laneGiven, crashed,
                 upcalls, nops, nextId, registered, invoked, events, ranges,
                 resets>>

\* ------------------------------------------------------------------------
\* WaitForEpochZero, Reset, ArenaResetSafely
\* ------------------------------------------------------------------------
\* One read of WaitForEpochZero.  r: the waiter's phase, index and whether
\* its deadline has passed; c: the count it reads.  Spin and yield phases
\* test the count before the clock, the sleep phase the clock first.
WaitForEpochZero(r, c) ==
  LET p1 == IF r.phase = "spin" /\ r.i >= cfg.spin_iters
              THEN [phase |-> "yield", i |-> 0]
              ELSE [phase |-> r.phase, i |-> r.i]
      p2 == IF p1.phase = "yield" /\ p1.i >= cfg.yield_iters
              THEN [phase |-> "sleep", i |-> 0]
              ELSE p1
  IN  IF p2.phase = "sleep"
        THEN IF r.expired THEN [phase |-> "sleep", i |-> 0, verdict |-> "timeout"]
             ELSE IF c = 0 THEN [phase |-> "sleep", i |-> 0, verdict |-> "ok"]
             ELSE [phase |-> "sleep", i |-> 0, verdict |-> "again"]
        ELSE IF c = 0 THEN [phase |-> p2.phase, i |-> p2.i, verdict |-> "ok"]
             ELSE IF r.expired
               THEN [phase |-> p2.phase, i |-> p2.i, verdict |-> "timeout"]
               ELSE [phase |-> p2.phase, i |-> p2.i + 1, verdict |-> "again"]

\* A reset that runs whatever the wait said.
AfterWaitAlways(ok) == "rs_collect"

\* ArenaResetSafely: if (ok) Reset(); then the freeze bit is cleared.
AfterWait(ok) == IF ok THEN "rs_collect" ELSE "unfreeze"

\* ArenaResetSafely(timeout): set FREEZE; WaitForEpochZero takes its
\* deadline (already passed when the timeout is zero).
ResetSafelyCall(t, zero) ==
  /\ Running /\ th[t].pc = "idle" /\ t \in active /\ t \in maint /\ nops < limit
  /\ word' = BeginFreeze(word)
  /\ th' = [th EXCEPT ![t] = [th[t] EXCEPT
               !.pc = "wait", !.op = "safely", !.ok = FALSE,
               !.phase = "spin", !.i = 0, !.expired = zero,
               !.pending = <<>>]]
  /\ nops' = nops + 1
  /\ UNCHANGED <<env, mu, given, returned, log, owned, head, blocks, total, lane, laneGiven, crashed,
                 upcalls, nextId, registered, invoked, events, ranges, resets>>

\* The steady clock passes the waiter's deadline.
Tick(t) ==
  /\ Running /\ th[t].pc = "wait" /\ ~th[t].expired
  /\ th' = [th EXCEPT ![t].expired = TRUE]
  /\ UNCHANGED <<env, mu, given, returned, log, owned, word, head, blocks, total, lane, laneGiven, crashed,
                 upcalls, nops, nextId, registered, invoked, events, ranges,
                 resets>>

\* One iteration of the wait.
WaitStep(t) ==
  /\ Running /\ th[t].pc = "wait"
  /\ LET w == WaitForEpochZero(th[t], Count(word))
     IN  th' = [th EXCEPT ![t] = [th[t] EXCEPT
                   !.phase = w.phase, !.i = w.i,
                   !.ok = (w.verdict = "ok"),
                   !.pc = IF w.verdict = "again" THEN "wait"
                          ELSE AfterWait(w.verdict = "ok")]]
  /\ UNCHANGED <<env, mu, given, returned, log, owned, word, head, blocks, total, lane, laneGiven, crashed,
                 upcalls, nops, nextId, registered, invoked, events, ranges,
                 resets>>

\* Reset() called directly.
ResetCall(t) ==
  /\ Running /\ th[t].pc = "idle" /\ t \in active /\ t \in maint /\ nops < limit
  /\ th' = [th EXCEPT ![t] = [th[t] EXCEPT
               !.pc = "rs_collect", !.op = "reset", !.ok = FALSE,
               !.pending = <<>>]]
  /\ nops' = nops + 1
  /\ UNCHANGED <<env, mu, given, returned, log, owned, word, head, blocks, total, lane, laneGiven, crashed,
                 upcalls, nextId, registered, invoked, events, ranges, resets>>

\* A walk that stops after the first block.
CollectHeadOnly(h) == IF h = <<>> THEN <<>> ELSE blocks[Head(h)].dtors

\* RunAllDtors_, first half: the cleanup lists of the blocks in list order.
RECURSIVE CollectDtors(_)
CollectDtors(h) ==
  IF h = <<>> THEN <<>> ELSE blocks[Head(h)].dtors \o CollectDtors(Tail(h))

\* A check that never fires.
AssertNoEpochOff_(w) == FALSE

\* AssertNoEpoch_ in a debug build: abort when the count is not 0.
AssertNoEpoch_(w) == debug /\ Count(w) # 0

\* Reset: AssertNoEpoch_, on_reset_begin, then RunAllDtors_ takes every
\* block's cleanup list (under mu_) and leaves the blocks' lists empty.
ResetCollect(t) ==
  /\ Running /\ th[t].pc = "rs_collect"
  /\ AssertNoEpoch_(word) \/ mu = Null
  /\ IF AssertNoEpoch_(word)
       THEN /\ crashed' = "assert_abort"
            /\ UNCHANGED <<th, blocks, events, ranges>>
       ELSE /\ crashed' = crashed
            /\ events' = [events EXCEPT !.reset_begin = @ + 1]
            /\ blocks' = [r \in DOMAIN blocks |->
                            IF InList(r) THEN [blocks[r] EXCEPT !.dtors = <<>>]
                                         ELSE blocks[r]]
            /\ ranges' = [u \in Threads |-> {}]
            /\ th' = [th EXCEPT ![t] = [th[t] EXCEPT
                         !.pc = "rs_run", !.pending = CollectDtors(head),
                         !.atStart = registered]]
  /\ UNCHANGED <<env, mu, given, returned, log, owned, word, head, total, lane, laneGiven, upcalls, nops,
                 nextId, registered, invoked, resets>>

\* RunAllDtors_, second half: n->fn(n->arg), outside the lock.  A cleanup
\* that allocates starts its Allocate on the resetting thread.
RunDtor(t) ==
  /\ Running /\ th[t].pc = "rs_run" /\ th[t].pending # <<>>
  /\ invoked' = [invoked EXCEPT ![Head(th[t].pending)] = @ + 1]
  /\ th' = [th EXCEPT ![t] =
              IF cb
                THEN [th[t] EXCEPT
                        !.pending = Tail(@), !.nested = TRUE, !.pc = "enter",
                        !.size = CallbackRequest[1],
                        !.align = RaiseAlign(CallbackRequest[2]),
                        !.curv = word, !.fail = FALSE, !.res = Null]
                ELSE [th[t] EXCEPT !.pending = Tail(@)]]
  /\ UNCHANGED <<env, mu, given, returned, log, owned, word, head, blocks, total, lane, laneGiven, crashed,
                 upcalls, nops, nextId, registered, events, ranges, resets>>

\* A rewind that leaves the cursor where it is.
ResetBlockKeepCursor(b) == [b EXCEPT !.dtors = <<>>]

\* Reset, per block: b->cur = b->begin; b->dtors = nullptr.
ResetBlock(b) == [b EXCEPT !.cur = b.begin, !.dtors = <<>>]

\* Reset: every block back to its begin, lists cleared (under mu_);
\* on_reset_end.
Rewind(t) ==
  /\ Running /\ th[t].pc = "rs_run" /\ th[t].pending = <<>>
  /\ th[t].op # "purge" /\ mu = Null
  /\ blocks' = [r \in DOMAIN blocks |->
                  IF InList(r) THEN ResetBlock(blocks[r]) ELSE blocks[r]]
  /\ events' = [events EXCEPT !.reset_end = @ + 1]
  /\ resets' = Append(resets, th[t].atStart)
  /\ ranges' = [u \in Threads |-> {}]
  /\ th' = [th EXCEPT ![t].pc = IF th[t].op = "safely" THEN "unfreeze" ELSE "idle"]
  /\ UNCHANGED <<env, mu, given, returned, log, owned, word, head, total, lane, laneGiven, crashed, upcalls,
                 nops, nextId, registered, invoked>>

\* ArenaResetSafely: clear FREEZE, on the success and on the timeout path.
Unfreeze(t) ==
  /\ Running /\ th[t].pc = "unfreeze"
  /\ word' = EndFreeze(word)
  /\ th' = [th EXCEPT ![t].pc = IF th[t].ok THEN "idle" ELSE "rs_check"]
  /\ UNCHANGED <<env, mu, given, returned, log, owned, head, blocks, total, lane, laneGiven, crashed,
                 upcalls, nops, nextId, registered, invoked, events, ranges,
                 resets>>

\* ArenaResetSafely after a timeout: a debug build aborts when epochs are
\* still active; otherwise false is returned.
TimeoutReturn(t) ==
  /\ Running /\ th[t].pc = "rs_check"
  /\ IF debug /\ Count(word) # 0
       THEN /\ crashed' = "timeout_abort"
            /\ th' = th
       ELSE /\ crashed' = crashed
            /\ th' = [th EXCEPT ![t].pc = "idle"]
  /\ UNCHANGED <<env, mu, given, returned, log, owned, word, head, blocks, total, lane, laneGiven, upcalls,
                 nops, nextId, registered, invoked, events, ranges, resets>>

\* ------------------------------------------------------------------------
\* Purge
\* ------------------------------------------------------------------------
\* Purge(): AssertNoEpoch_, on_reset_begin and RunAllDtors_ as in Reset.
PurgeCall(t) ==
  /\ Running /\ th[t].pc = "idle" /\ t \in active /\ t \in maint /\ nops < limit
  /\ th' = [th EXCEPT ![t] = [th[t] EXCEPT
               !.pc = "rs_collect", !.op = "purge", !.ok = FALSE,
               !.pending = <<>>]]
  /\ nops' = nops + 1
  /\ UNCHANGED <<env, mu, given, returned, log, owned, word, head, blocks,
                 total, lane, laneGiven, crashed, upcalls, nextId, registered, invoked,
                 events, ranges, resets>>

\* Purge: NAVARY_LOCK_GUARD(lk, mu_); b = head_.
PurgeLock(t) ==
  /\ Running /\ th[t].pc = "rs_run" /\ th[t].pending = <<>>
  /\ th[t].op = "purge" /\ mu = Null
  /\ mu' = t
  /\ th' = [th EXCEPT ![t] = [th[t] EXCEPT !.pc = "pg_free", !.pending = head]]
  /\ UNCHANGED <<env, given, returned, log, owned, word, head, blocks, total,
                 lane, laneGiven, crashed, upcalls, nops, nextId, registered, invoked,
                 events, ranges, resets>>

\* A deallocate that passes the body's size, without the header.
FreeBlockBody_(b) == <<b.begin - SizeofArenaBlock, b.end - b.begin>>

\* FreeBlock_: the <<raw, size>> handed to upstream.deallocate.
FreeBlock_(b) ==
  <<b.begin - SizeofArenaBlock, (b.end - b.begin) + SizeofArenaBlock>>

\* Purge, one turn of the loop: nxt = b->next; FreeBlock_(b); b = nxt.
FreeBlock(t) ==
  /\ Running /\ th[t].pc = "pg_free" /\ th[t].pending # <<>>
  /\ LET b == Head(th[t].pending)
     IN  /\ returned' = Append(returned, FreeBlock_(blocks[b]))
         /\ blocks' = [r \in DOMAIN blocks \ {b} |-> blocks[r]]
  /\ th' = [th EXCEPT ![t].pending = Tail(@)]
  /\ UNCHANGED <<env, mu, given, log, owned, word, head, total, lane, laneGiven, crashed,
                 upcalls, nops, nextId, registered, invoked, events, ranges,
                 resets>>

\* Purge: head_ = nullptr; total_bytes_ = 0; on_reset_end; mu_ released.
PurgeEnd(t) ==
  /\ Running /\ th[t].pc = "pg_free" /\ th[t].pending = <<>>
  /\ head' = <<>>
  /\ total' = 0
  /\ events' = [events EXCEPT !.reset_end = @ + 1]
  /\ ranges' = [u \in Threads |-> {}]
  /\ mu' = Null
  /\ th' = [th EXCEPT ![t].pc = "idle"]
  /\ UNCHANGED <<env, given, returned, log, owned, word, blocks, lane, laneGiven,
                 crashed, upcalls, nops, nextId, registered, invoked, resets>>

\* ------------------------------------------------------------------------
\* Specification
\* ------------------------------------------------------------------------
Next ==
  \E t \in Threads :
    \/ \E q \in reqs : AllocateCall(t, q[1], q[2])
    \/ EnterEpoch(t)
    \/ TryCachedBlock(t)
    \/ Refill(t)
    \/ Leave(t)
    \/ OwnCall(t, UserCleanup)
    \/ OwnNode(t)
    \/ OwnLink(t)
    \/ GuardEnter(t)
    \/ GuardLeave(t)
    \/ \E zero \in BOOLEAN : ResetSafelyCall(t, zero)
    \/ Tick(t)
    \/ WaitStep(t)
    \/ ResetCall(t)
    \/ ResetCollect(t)
    \/ RunDtor(t)
    \/ Rewind(t)
    \/ Unfreeze(t)
    \/ TimeoutReturn(t)

Spec == Init /\ [][Next]_vars

SpecSeq == InitSeq /\ [][Next]_vars

\* A call in progress goes on: the OS schedules every runnable thread, and
\* the steady clock reaches every deadline.
Continue(t) ==
  \/ EnterEpoch(t) \/ TryCachedBlock(t) \/ Refill(t) \/ Leave(t)
  \/ OwnNode(t) \/ OwnLink(t)
  \/ Tick(t) \/ WaitStep(t) \/ ResetCollect(t) \/ RunDtor(t) \/ Rewind(t)
  \/ Unfreeze(t) \/ TimeoutReturn(t)

SpecLive == InitLive /\ [][Next]_vars /\ \A t \in Threads : WF_vars(Continue(t))

\* The two threads, both of them calling ArenaResetSafely and Reset.
InitTwoResets == InitWith({DefaultConfig}, Threads, Threads, MaxTwoOps, ConcRequests)

SpecTwoResets == InitTwoResets /\ [][Next]_vars

\* The two threads with blocks that take several cleanup nodes.
InitRoomy == InitWith({RoomyConfig}, Threads, {1}, MaxOps, ConcRequests)

SpecRoomy == InitRoomy /\ [][Next]_vars

\* The two threads again, every registered cleanup calling Allocate.
InitCb ==
  InitArena({DefaultConfig}, Threads, {1}, MaxCbOps, ConcRequests, TRUE, {<<>>})

SpecCb == InitCb /\ [][Next]_vars /\ \A t \in Threads : WF_vars(Continue(t))

\* A Reset or a Purge is running on some thread.
InMaintenance ==
  \E u \in Threads : th[u].op \in {"reset", "purge"} /\ th[u].pc # "idle"

\* Every thread but t is between calls.
OthersIdle(t) == \A u \in Threads \ {t} : th[u].pc = "idle"

\* Callers that keep the contract of Reset and Purge: these are called
\* while no other thread is inside a call, and no call starts while one of
\* them runs.
NextPurge ==
  \E t \in Threads :
    \/ ~InMaintenance /\ \E q \in reqs : AllocateCall(t, q[1], q[2])
    \/ ~InMaintenance /\ OwnCall(t, UserCleanup)
    \/ OthersIdle(t) /\ ResetCall(t)
    \/ OthersIdle(t) /\ PurgeCall(t)
    \/ EnterEpoch(t)
    \/ TryCachedBlock(t)
    \/ Refill(t)
    \/ Leave(t)
    \/ OwnNode(t)
    \/ OwnLink(t)
    \/ ResetCollect(t)
    \/ RunDtor(t)
    \/ Rewind(t)
    \/ PurgeLock(t)
    \/ FreeBlock(t)
    \/ PurgeEnd(t)

\* Threads that only allocate, with the time the upstream takes inside
\* RefillLane_ made visible: mu_ is held across its call.
NextMutex ==
  \E t \in Threads :
    \/ \E q \in reqs : AllocateCall(t, q[1], q[2])
    \/ EnterEpoch(t)
    \/ TryCachedBlock(t)
    \/ RefillLock(t)
    \/ RefillUnlock(t)
    \/ Leave(t)

InitMutex == InitWith({RoomyConfig}, Threads, {}, MaxMutexOps, Requests)

SpecMutex == InitMutex /\ [][NextMutex]_vars

\* ------------------------------------------------------------------------
\* A caller that follows a script
\* ------------------------------------------------------------------------
\* MakeSpan<T>(a, n) for a T with a constructor and a destructor, as the
\* calls it makes on the arena: the array, the Sweep header and its Own,
\* the SweepPtr header and its Own.  An Own names the results it passes by
\* their place among the results of the script's Allocate calls; `base`
\* such results precede the span's.
MakeSpan(base, n) ==
  << <<"alloc", SizeofT * n, AlignofT>>,
     <<"alloc", SizeofSweep, AlignofSweep>>,
     <<"own", "Sweep", n, base + 2, 0>>,
     <<"alloc", SizeofSweepPtr, AlignofSweep>>,
     <<"own", "SweepPtr", n, base + 3, base + 1>> >>

\* The next call of the script: Allocate, Own or Reset.
ScriptedCall(t) ==
  /\ nops < Len(script)
  /\ LET it == script[nops + 1]
     IN  CASE it[1] = "alloc" -> AllocateCall(t, it[2], it[3])
           [] it[1] = "own" ->
                /\ it[4] <= Len(log) /\ it[5] <= Len(log)
                /\ OwnCall(t, <<it[2], log[it[4]][1], it[3],
                                IF it[5] = 0 THEN Null ELSE log[it[5]][1]>>)
           [] it[1] = "reset" -> ResetCall(t)

NextScript ==
  \E t \in Threads :
    \/ ScriptedCall(t)
    \/ EnterEpoch(t)
    \/ TryCachedBlock(t)
    \/ Refill(t)
    \/ Leave(t)
    \/ OwnNode(t)
    \/ OwnLink(t)
    \/ ResetCollect(t)
    \/ RunDtor(t)
    \/ Rewind(t)

\* Sequences of 1..n requests.
RECURSIVE SeqsUpTo(_, _)
SeqsUpTo(S, n) ==
  IF n = 0 THEN {}
  ELSE LET shorter == SeqsUpTo(S, n - 1)
       IN  {<<x>> : x \in S} \cup shorter
             \cup {Append(q, x) : q \in shorter, x \in S}

\* A sequence of Allocate calls, Reset, the same sequence again.
ReplayScripts ==
  {q \o << <<"reset">> >> \o q :
     q \in SeqsUpTo({<<"alloc", r[1], r[2]>> : r \in ReplayRequests}, MaxScript)}

\* MakeSpan<T>(a, n), then Reset.
SpanScripts == {MakeSpan(0, n) \o << <<"reset">> >> : n \in 1..MaxSpan}

\* One thread that follows one of the scripts.
InitScript ==
  InitArena(Configs \cup {RoomyConfig}, {1}, {1},
            2 * MaxScript + MaxSpan + 4, {}, FALSE,
            ReplayScripts \cup SpanScripts)

SpecScript == InitScript /\ [][NextScript]_vars

\* Callers that call Reset and Purge while ArenaEpoch guards are held.
NextMisuse ==
  \E t \in Threads :
    \/ ~InMaintenance /\ \E q \in reqs : AllocateCall(t, q[1], q[2])
    \/ ~InMaintenance /\ OwnCall(t, UserCleanup)
    \/ OthersIdle(t) /\ ResetCall(t)
    \/ OthersIdle(t) /\ PurgeCall(t)
    \/ ~InMaintenance /\ GuardEnter(t)
    \/ GuardLeave(t)
    \/ EnterEpoch(t)
    \/ TryCachedBlock(t)
    \/ Refill(t)
    \/ Leave(t)
    \/ OwnNode(t)
    \/ OwnLink(t)
    \/ ResetCollect(t)
    \/ RunDtor(t)
    \/ Rewind(t)
    \/ PurgeLock(t)
    \/ FreeBlock(t)
    \/ PurgeEnd(t)

InitMisuse == InitWith({DefaultConfig}, Threads, {1}, MaxMisuseOps, ConcRequests)

SpecMisuse == InitMisuse /\ [][NextMisuse]_vars

\* Two threads, thread 1 resetting and purging.
InitPurge == InitWith({DefaultConfig}, Threads, {1}, MaxPurgeOps, ConcRequests)

SpecPurge == InitPurge /\ [][NextPurge]_vars

\* ------------------------------------------------------------------------
\* Properties
\* ------------------------------------------------------------------------
\* Thread t is between EnterEpoch_ and LeaveEpoch_.
InEpoch(t) == th[t].guard \/ th[t].pc \in {"cached", "refill", "leave"}

\* Thread t is inside ArenaResetSafely.
InSafely(t) == th[t].op = "safely" /\ th[t].pc # "idle"

\* Thread t sits in EnterEpoch_ having read a frozen word.
Stalled(t) == th[t].pc = "enter" /\ Frozen(th[t].curv)

Guards == {t \in Threads : th[t].guard}

\* C1: with one maintenance thread, while the Reset inside ArenaResetSafely
\* invokes cleanups or rewinds the blocks the count is 0 and no thread is
\* between EnterEpoch_ and LeaveEpoch_.
C1_ResetPhaseAtZero ==
  \A m \in Threads :
    (th[m].op = "safely" /\ th[m].pc = "rs_run")
      => (Count(word) = 0 /\ \A t \in Threads : ~InEpoch(t))

C1_Witness ==
  /\ th[1].op = "safely" /\ th[1].pc = "rs_run" /\ th[1].pending # <<>>
  /\ th[2].pc = "enter"

\* C2: no step raises the count from a state in which the frozen bit is set.
C2_NoIncrementWhileFrozen ==
  [][Count(word') > Count(word) => ~Frozen(word)]_vars

C2_Witness ==
  \E t \in Threads :
    /\ th[t].pc = "enter" /\ ~Frozen(th[t].curv)
    /\ Frozen(word) /\ Count(word) = Count(th[t].curv)

\* C3: a step of a thread that is inside ArenaResetSafely and has not seen
\* the count at 0 changes no block, not the block list, not total_bytes_
\* and not the count, invokes no cleanup and fires no reset event; when the
\* call has returned false the frozen bit is clear.
C3_TimeoutMutatesNothing ==
  /\ [][\A t \in Threads :
         (th'[t] # th[t] /\ th'[t].op = "safely" /\ ~th'[t].ok
            /\ (th[t].pc # "idle" \/ th'[t].pc # "idle"))
           => (blocks' = blocks /\ head' = head /\ total' = total
               /\ invoked' = invoked /\ events' = events
               /\ Count(word') = Count(word))]_vars
  /\ [](\A t \in Threads :
         (th[t].op = "safely" /\ th[t].pc = "idle" /\ ~th[t].ok)
           => ~Frozen(word))

C3_Witness ==
  /\ th[1].op = "safely" /\ th[1].pc = "idle" /\ ~th[1].ok
  /\ th[2].guard
  /\ \E r \in DOMAIN blocks : blocks[r].dtors # <<>>

\* C4: a timed-out ArenaResetSafely does not terminate the process.
C4_TimeoutIsRecoverable == crashed # "timeout_abort"

\* Two ranges of bytes share no byte.
Disjoint(x, y) == x[1] + x[2] <= y[1] \/ y[1] + y[2] <= x[1]

\* C5: a non-null result of Allocate is a multiple of the raised alignment
\* and its bytes lie inside one block of the list.
C5_AllocInsideBlock ==
  \A t \in Threads :
    (th[t].op = "alloc" /\ th[t].pc = "idle" /\ th[t].res # Null)
      => /\ th[t].res % th[t].align = 0
         /\ \E i \in 1..Len(head) :
              /\ blocks[head[i]].begin <= th[t].res
              /\ th[t].res + th[t].size <= blocks[head[i]].end

\* C6: the ranges returned to one thread since the last reset are disjoint.
C6_NoOverlap ==
  \A t \in Threads :
    \A x \in ranges[t], y \in ranges[t] : x # y => Disjoint(x, y)

\* C7: no cleanup is invoked before a reset has started, and once the first
\* reset has completed every cleanup registered before it started has been
\* invoked exactly once and no other cleanup has been invoked.
C7_CleanupCompleteness ==
  (\A t \in Threads : th[t].pc # "rs_run")
    => /\ resets = <<>> => \A i \in DOMAIN invoked : invoked[i] = 0
       /\ Len(resets) = 1 =>
            \A i \in DOMAIN invoked :
              invoked[i] = IF i \in resets[1] THEN 1 ELSE 0

C7_Witness ==
  /\ Len(resets) = 1 /\ Cardinality(resets[1]) = 2
  /\ \A t \in Threads : th[t].pc = "idle"

\* C8: when no ArenaResetSafely is in progress the frozen bit is clear.
C8_FreezeClearWhenNoReset ==
  (\A t \in Threads : ~InSafely(t)) => ~Frozen(word)

C8_Witness ==
  /\ th[1].op = "safely" /\ th[1].pc = "idle" /\ th[1].ok
  /\ events.reset_end = 1 /\ th[2].pc = "enter"

\* C9: in a running process in which every ArenaResetSafely returns, a
\* thread stalled in EnterEpoch_ on the frozen bit gets its increment.
C9_StalledEventuallyEnters ==
  \A t \in Threads :
    \/ []<>(\E m \in Threads : InSafely(m))
    \/ (Stalled(t) ~> (th[t].pc # "enter" \/ ~Running))

C9_Witness ==
  /\ Stalled(2) /\ ~Frozen(word)
  /\ th[1].op = "safely" /\ th[1].pc = "idle"

\* C10: a refill the upstream refuses leaves the blocks, the block list and
\* total_bytes_ as they were, and Allocate returns null with its epoch
\* left: with no call in progress the count is the number of guards held.
C10_OomLeavesArenaUnchanged ==
  /\ [][\A t \in Threads :
         (th[t].pc = "refill" /\ th'[t].fail)
           => (blocks' = blocks /\ head' = head /\ total' = total)]_vars
  /\ [](\A t \in Threads :
         (th[t].op = "alloc" /\ th[t].pc = "idle" /\ th[t].fail)
           => th[t].res = Null)
  /\ []((/\ \A t \in Threads : th[t].pc = "idle"
         /\ \E t \in Threads : th[t].op = "alloc" /\ th[t].res = Null)
          => Count(word) = Cardinality(Guards))

C10_Witness ==
  \E t \in Threads :
    /\ th[t].op = "alloc" /\ th[t].pc = "idle" /\ th[t].fail
    /\ head # <<>>
    /\ \E u \in Threads : u # t /\ th[u].guard

\* C11: an Own whose upstream is out of memory hands the failure back: it
\* constructs no cleanup node at a null address and reads no cleanup list
\* through a null lane block.
C11_OwnSurvivesOom == crashed # "null_deref"

\* C12: whenever a thread's lane has a block, that block is in the block
\* list of the arena.
C12_LaneBlockInList ==
  \A t \in Threads : lane[t] # Null => InList(lane[t])

\* How many entries of the sequence s are x.
CountIn(s, x) == Cardinality({i \in DOMAIN s : s[i] = x})

\* C17: every <<raw, size>> the upstream gave is handed back at most once
\* and with the size it was given with, the ones not handed back are exactly
\* the live blocks; only a step of a Purge hands a block back; and the step
\* that ends a Purge leaves the list empty, total_bytes_ at 0 and every
\* block handed back.
C17_BlocksReturnedOnce ==
  /\ [](\A i \in DOMAIN returned : CountIn(given, returned[i]) > 0)
  /\ [](\A i \in DOMAIN given :
          LET x == given[i]
          IN  CountIn(given, x) - CountIn(returned, x) =
                IF x[1] \in DOMAIN blocks /\ blocks[x[1]].end - x[1] = x[2]
                  THEN 1 ELSE 0)
  /\ [][returned' # returned =>
          \E t \in Threads : th[t].op = "purge" /\ th[t].pc = "pg_free"]_vars
  /\ [][\A t \in Threads :
          (th[t].op = "purge" /\ th[t].pc # "idle" /\ th'[t].pc = "idle")
            => (head' = <<>> /\ total' = 0 /\ DOMAIN blocks' = {}
                /\ Len(returned') = Len(given'))]_vars

C17_Witness ==
  /\ th[1].op = "purge" /\ th[1].pc = "idle"
  /\ Len(returned) = 2 /\ returned[1] # returned[2]
  /\ events.reset_end = 2

\* Thread t is on the hot path of Allocate: past EnterEpoch_, with a cached
\* block that is linked and has room for the request.
OnHotPath(t) ==
  /\ th[t].pc = "cached" /\ lane[t] \in DOMAIN blocks /\ InList(lane[t])
  /\ TryBump_(blocks[lane[t]], th[t].size, th[t].align).ok

\* C13: a thread on the hot path of Allocate can take its next step whoever
\* holds mu_: it does not wait for the mutex.
C13_HotPathNeedsNoMutex ==
  \A t \in Threads : OnHotPath(t) => ENABLED TryCachedBlock(t)

\* C14: a reset that has started running the cleanups finishes, also when
\* the cleanups call Allocate on the arena being reset.
C14_ResetWithAllocatingCleanupEnds ==
  \A t \in Threads :
    (th[t].pc = "rs_run") ~> (th[t].pc = "idle" \/ ~Running)

\* C15: the block a refill of Allocate obtains has the size
\* max(initial_block_bytes, need + alignment + header) when that is within
\* max_block_bytes, and in every case holds the header and the request: the
\* bump after the refill puts the request inside the new block.
C15_NewBlockFitsRequest ==
  [][\A t \in Threads :
       (th[t].pc = "refill" /\ th'[t].pc = "leave" /\ ~th'[t].fail) =>
         LET need == th[t].size
             min_needed == need + th[t].align + SizeofArenaBlock
             got == total' - total
             b == blocks'[lane'[t]]
         IN  /\ min_needed <= cfg.max_block_bytes =>
                  got = IF min_needed > cfg.initial_block_bytes
                          THEN min_needed ELSE cfg.initial_block_bytes
             /\ got >= need + SizeofArenaBlock
             /\ b.begin + need <= b.cur]_vars

\* C16: no step of a Reset (called directly or by ArenaResetSafely) changes
\* the block list or total_bytes_, and the step that ends it leaves every
\* block of the list with cur = begin and an empty cleanup list.
C16_ResetFrame ==
  [][\A t \in Threads :
       (/\ th[t].op \in {"reset", "safely"}
        /\ th[t].pc \in {"rs_collect", "rs_run"}
        /\ th'[t] # th[t]) =>
         /\ head' = head
         /\ total' = total
         /\ th'[t].pc \notin {"rs_collect", "rs_run", "enter"} =>
              \A i \in 1..Len(head') :
                /\ blocks'[head'[i]].cur = blocks'[head'[i]].begin
                /\ blocks'[head'[i]].dtors = <<>>]_vars

C16_Witness ==
  /\ events.reset_end = 1 /\ Len(head) = 2 /\ total > 0
  /\ registered # {} /\ \A i \in DOMAIN invoked : invoked[i] <= 1
  /\ \E i \in DOMAIN invoked : invoked[i] = 1
  /\ \A t \in Threads : th[t].pc = "idle"
  /\ \A i \in 1..Len(head) : blocks[head[i]].cur = blocks[head[i]].begin

\* The script is a sequence of k Allocate calls, Reset, the same k calls.
ReplayLen ==
  IF script \in ReplayScripts THEN (Len(script) - 1) \div 2 ELSE 0

\* Every Allocate of the script that has returned so far returned non-null.
NoneFailed == \A i \in DOMAIN log : log[i][1] # Null

\* C18: once the Reset of a replayed script whose calls all succeeded has
\* completed, no step calls the upstream or changes total_bytes_.
C18_ReplayReusesBlocks ==
  [][(ReplayLen > 0 /\ resets # <<>> /\ NoneFailed)
       => (upcalls' = upcalls /\ total' = total /\ given' = given)]_vars

\* C19: in a replayed script the i-th Allocate after the Reset returns the
\* offset from its block's begin that the i-th Allocate before it returned.
C19_ReplaySameOffsets ==
  \A i \in 1..ReplayLen :
    (ReplayLen + i <= Len(log) /\ NoneFailed)
      => log[ReplayLen + i][2] = log[i][2]

\* The addresses on which the cleanup d = <<fn, arg, n, arr>> runs ~T():
\* Sweep::Run takes the array to start right after its header, SweepPtr::Run
\* takes the stored pointer.
Targets(d) ==
  IF d[1] = "Sweep"
    THEN {d[2] + SizeofSweep + i * SizeofT : i \in 0..(d[3] - 1)}
  ELSE IF d[1] = "SweepPtr"
    THEN {d[4] + i * SizeofT : i \in 0..(d[3] - 1)}
  ELSE {}

\* How many times ~T() has run on address x, cleanups 1..k counted.
RECURSIVE DtorCalls(_, _)
DtorCalls(k, x) ==
  IF k = 0 THEN 0
  ELSE DtorCalls(k - 1, x)
         + (IF x \in Targets(owned[k]) THEN invoked[k] ELSE 0)

\* The script was MakeSpan and Reset, every call succeeded and both are done.
SpanDone ==
  /\ script \in SpanScripts /\ nops = Len(script) /\ Running
  /\ \A t \in Threads : th[t].pc = "idle"
  /\ Len(log) = 3 /\ NoneFailed /\ resets # <<>>

\* C20: MakeSpan has registered one cleanup, and after the Reset ~T() has
\* run once on each of the n elements of the span and on nothing else.
C20_SpanDestroyedOnce ==
  SpanDone =>
    LET n == script[3][3]
        elems == {log[1][1] + i * SizeofT : i \in 0..(n - 1)}
    IN  /\ Cardinality(registered) = 1
        /\ \A x \in elems : DtorCalls(Len(owned), x) = 1
        /\ \A k \in DOMAIN owned :
             invoked[k] > 0 => Targets(owned[k]) \subseteq elems

\* IsIdle(): (active_epochs_ & kCountMask) == 0
IsIdle == Count(word) = 0

\* How many epochs thread t holds: its ArenaEpoch guard and the Allocate it
\* is inside of.
EpochsOf(t) ==
  (IF th[t].guard THEN 1 ELSE 0)
    + (IF th[t].pc \in {"cached", "refill", "leave"} THEN 1 ELSE 0)

\* C21: the count of the word is the number of epochs the threads hold,
\* whatever the frozen bit is, and IsIdle() is true exactly when no thread
\* holds one.
C21_CountIsEpochsHeld ==
  /\ Count(word) = EpochsOf(1) + EpochsOf(2)
  /\ IsIdle <=> \A t \in Threads : ~InEpoch(t)

C21_Witness ==
  /\ Frozen(word) /\ Count(word) = 2
  /\ th[1].op = "safely" /\ th[1].pc = "wait"
  /\ th[2].guard /\ th[2].pc = "leave"

\* Thread t is at the precondition check of a Reset or Purge called
\* directly, in a debug build, with the count not 0.
AtFailingCheck(t) ==
  /\ debug /\ th[t].op \in {"reset", "purge"} /\ th[t].pc = "rs_collect"
  /\ Count(word) # 0

\* C22: in a debug build a Reset or Purge called directly does not get past
\* its check while the count is not 0, and the step that aborts it changes
\* no block, no cleanup list, not the list and not total_bytes_, invokes no
\* cleanup and frees nothing.
C22_MisuseCaughtBeforeMutation ==
  /\ [][\A t \in Threads : AtFailingCheck(t) => th'[t] = th[t]]_vars
  /\ [][(crashed = "none" /\ crashed' = "assert_abort") =>
          /\ \E t \in Threads : AtFailingCheck(t)
          /\ blocks' = blocks /\ head' = head /\ total' = total
          /\ invoked' = invoked /\ returned' = returned
          /\ events' = events]_vars
  /\ [](\A t \in Threads :
          (Running /\ AtFailingCheck(t)) => ENABLED ResetCollect(t))

C22_Witness ==
  /\ crashed = "assert_abort" /\ th[1].op = "purge"
  /\ th[2].guard /\ registered # {} /\ head # <<>>

\* C23: while some ArenaResetSafely is waiting for the count to reach 0 or
\* running its Reset, the frozen bit is set.
C23_FrozenUntilLastResetEnds ==
  \A t \in Threads :
    (th[t].op = "safely" /\ th[t].pc \in {"wait", "rs_collect", "rs_run"})
      => Frozen(word)

\* C24: a thread inside Own, between the allocation of its DtorNode and the
\* linking of the node, is counted in the epoch count, so no Reset of an
\* ArenaResetSafely on another thread runs in between.
C24_OwnLinksInsideEpoch ==
  \A t \in Threads :
    th[t].pc = "own_link" =>
      /\ Count(word) >= 1
      /\ \A m \in Threads \ {t} :
           th[m].op = "safely" => th[m].pc \notin {"rs_collect", "rs_run"}

\* C25: a block of the arena's list is the current_block of at most one
\* thread's lane, also after a Purge and a reuse of the address by the
\* upstream allocator.
C25_BlockOwnedByOneLane ==
  \A t, u \in Threads :
    (t # u /\ lane[t] # Null /\ InList(lane[t])) => lane[u] # lane[t]

\* The last answer of the upstream allocator with address b: the block that
\* lives at b now.
LastGiven(b) ==
  LET S == {i \in DOMAIN given : given[i][1] = b}
  IN  IF S = {} THEN 0 ELSE CHOOSE i \in S : \A j \in S : j <= i

\* C27: an Allocate (of Allocate, Create or Own) that has bumped a cursor has
\* bumped the block its own lane was given, never the address of a block
\* Purge has freed since: a stale lane.block is dropped and a new block
\* obtained first.
C27_StaleLaneDropped ==
  \A t \in Threads :
    (th[t].pc = "leave" /\ ~th[t].fail /\ lane[t] # Null)
      => laneGiven[t] = LastGiven(lane[t])

\* C26: while an ArenaResetSafely waits for a count above 0, some thread that
\* holds one of the counted epochs is not sitting in EnterEpoch_ with the
\* word frozen.
C26_GuardHolderNotStalled ==
  \A m \in Threads :
    (th[m].op = "safely" /\ th[m].pc = "wait" /\ Count(word) > 0)
      => \E t \in Threads :
           EpochsOf(t) > 0 /\ ~(th[t].pc = "enter" /\ Frozen(word))

\* C28: a WaitForEpochZero that has answered false was called with the
\* count above 0 (one caller, so the count it was called with is the count
\* it ends with): called with count 0 it answers true, for every timeout and
\* every wait policy.
C28_WaitTrueAtZero ==
  \A t \in Threads :
    (th[t].op = "safely" /\ th[t].pc = "unfreeze" /\ ~th[t].ok)
      => Count(word) > 0

\* The place of id k in the sequence s, 0 when it is not there.
Pos(s, k) ==
  LET S == {i \in DOMAIN s : s[i] = k}
  IN  IF S = {} THEN 0 ELSE CHOOSE i \in S : \A j \in S : i <= j

\* Reset is taking the lists of the blocks.
Collecting(t) == th[t].pc = "rs_collect" /\ th'[t].pc = "rs_run"

\* C29: cleanups registered into one block run in reverse order of their
\* registration (ids are given in the order of the Own calls).  A block's
\* list holds the later cleanup first; Reset takes each list in that order;
\* and it invokes what it took from the front, one at a time.
C29_ReverseOrderInBlock ==
  /\ [](\A b \in DOMAIN blocks :
          \A i, j \in DOMAIN blocks[b].dtors :
            i < j => blocks[b].dtors[i] > blocks[b].dtors[j])
  /\ [][\A t \in Threads : Collecting(t) =>
          \A i \in 1..Len(head) :
            LET l == blocks[head[i]].dtors
            IN  \A x, y \in DOMAIN l :
                  l[x] > l[y] =>
                    /\ Pos(th'[t].pending, l[x]) > 0
                    /\ Pos(th'[t].pending, l[x]) < Pos(th'[t].pending, l[y])]_vars
  /\ [][\A k \in DOMAIN invoked :
          invoked'[k] # invoked[k] =>
            \E t \in Threads :
              /\ th[t].pc = "rs_run" /\ th[t].pending # <<>>
              /\ k = Head(th[t].pending)
              /\ invoked'[k] = invoked[k] + 1
              /\ th'[t].pending = Tail(th[t].pending)]_vars

\* A Reset is about to invoke two cleanups that were registered into the
\* same block, the later one first.
C29_Witness ==
  \E t \in Threads :
    /\ th[t].pc = "rs_run"
    /\ Len(th[t].pending) >= 2
    /\ th[t].pending[1] > th[t].pending[2]
    /\ Len(head) = 1
    /\ invoked[th[t].pending[1]] = 0

\* The bytes asked of the upstream allocator for the blocks of the list h.
RECURSIVE BytesOf(_)
BytesOf(h) ==
  IF h = <<>> THEN 0
  ELSE (blocks[Head(h)].end - Head(h)) + BytesOf(Tail(h))

\* TotalReserved(): total_bytes_
TotalReserved == total

\* C30: whenever mu_ is free, TotalReserved() is the sum of the sizes asked
\* of the upstream allocator for the blocks in the list; an Allocate that
\* calls no RefillLane_ leaves it as it is.
C30_TotalIsSumOfBlocks ==
  /\ [](mu = Null => TotalReserved = BytesOf(head))
  /\ [][\A t \in Threads :
          (th[t].pc = "cached" /\ th'[t].pc = "leave")
            => (total' = total /\ head' = head)]_vars

\* Blocks are in the list again after a Purge, and mu_ is free.
C30_Witness ==
  /\ mu = Null
  /\ Len(head) >= 2
  /\ returned # <<>>
  /\ TotalReserved > 0
====
